---- MODULE Spec2Model ----
(***************************************************************************)
(* Model of the output-staging logic of local-voice-mcp's TTS runners:     *)
(*   scripts/tts_runner.py    (validate_output_path, detect_backend,       *)
(*                             generate_with_mlx, generate_with_pytorch,   *)
(*                             main)                                       *)
(*   scripts/kokoro_runner.py (main)                                       *)
(*                                                                         *)
(* A path is a sequence of segment names (the root directory is <<>>); the *)
(* string form of a path, used where the code compares strings, is         *)
(* PathStr.  The filesystem is a function from the canonical paths of the  *)
(* existing entries to their nodes.                                        *)
(*                                                                         *)
(* Spec is one run of a script on a host nothing else changes; SpecRace    *)
(* adds another process that replaces the output path while                *)
(* generate_with_mlx runs; SpecJobs runs two MLX jobs at once.             *)
(***************************************************************************)
EXTENDS Integers, Sequences, FiniteSets, TLC

VARIABLES
    fs,             \* the filesystem: canonical path -> node
    fs0,            \* the filesystem when the job started (history)
    peer,           \* a second MLX job of the host: its position and locals
    tool,           \* which script runs: "tts" (tts_runner.py) or "kokoro"
    text,           \* --text
    output,         \* --output, as given on the command line
    tempdir,        \* what tempfile.gettempdir() returns on this host
    probe,          \* what the host answers to detect_backend's checks
    pc,             \* position of the run in main()
    validation,     \* outcome of validate_output_path: "none" before it ran
    backend,        \* value returned by detect_backend, "none" before
    error,          \* the exception that ends the run, "none" if none
    exit,           \* process exit status, -1 while running
    scratch,        \* safe_work_dir of generate_with_mlx, <<>> before mkdtemp
    cwd,            \* process working directory
    generated,      \* generated_file chosen from the glob, "" before
    invoked,        \* the generation backend has been called
    rmtreeCalls,    \* number of shutil.rmtree(safe_work_dir) calls
    torchLoad,      \* torch.load is "original" or "patched"
    original_cwd,   \* original_cwd of generate_with_mlx, <<>> before it is read
    emitted,        \* number of files the MLX backend wrote (history)
    moved           \* shutil.move has put the artifact at the destination

vars == <<fs, fs0, peer, tool, text, output, tempdir, probe, pc, validation, backend,
          error, exit, scratch, cwd, generated, invoked, rmtreeCalls, torchLoad,
          original_cwd, emitted, moved>>

(***************************************************************************)
(* Bounds.                                                                 *)
(***************************************************************************)
\* the backend leaves 0..MaxArtifacts files in its working directory
MaxArtifacts == 2

(***************************************************************************)
(* Strings and paths.                                                      *)
(***************************************************************************)
Sep == "/"

StartsWith(s, p) == Len(s) >= Len(p) /\ SubSeq(s, 1, Len(p)) = p

EndsWith(s, p) == Len(s) >= Len(p) /\ SubSeq(s, Len(s) - Len(p) + 1, Len(s)) = p

\* str.strip() for the blank character
RECURSIVE Strip(_)
Strip(s) ==
    IF Len(s) = 0 THEN s
    ELSE IF SubSeq(s, 1, 1) = " " THEN Strip(SubSeq(s, 2, Len(s)))
    ELSE IF SubSeq(s, Len(s), Len(s)) = " " THEN Strip(SubSeq(s, 1, Len(s) - 1))
    ELSE s

\* the string of an absolute path: "/" for the root, "/a/b" otherwise
RECURSIVE JoinSegs(_)
JoinSegs(p) == IF p = <<>> THEN "" ELSE Sep \o Head(p) \o JoinSegs(Tail(p))

PathStr(p) == IF p = <<>> THEN Sep ELSE JoinSegs(p)

Parent(p) == IF p = <<>> THEN <<>> ELSE SubSeq(p, 1, Len(p) - 1)

Last(p) == p[Len(p)]

IsSegPrefix(r, p) == Len(r) <= Len(p) /\ SubSeq(p, 1, Len(r)) = r

\* os.path.normpath / os.path.abspath of an absolute path: "." dropped, ".."
\* removes the segment before it, lexically
RECURSIVE NormFrom(_, _)
NormFrom(acc, rest) ==
    IF rest = <<>> THEN acc
    ELSE IF Head(rest) = "." THEN NormFrom(acc, Tail(rest))
    ELSE IF Head(rest) = ".." THEN NormFrom(Parent(acc), Tail(rest))
    ELSE NormFrom(Append(acc, Head(rest)), Tail(rest))

AbsPath(p) == NormFrom(<<>>, p)

\* os.path.dirname / os.path.basename of a normalised absolute path
DirName(p) == Parent(p)

BaseName(p) == IF p = <<>> THEN "" ELSE Last(p)

\* os.path.commonpath([a, b]) of two normalised absolute paths
RECURSIVE CommonPath(_, _)
CommonPath(a, b) ==
    IF a = <<>> \/ b = <<>> \/ Head(a) # Head(b) THEN <<>>
    ELSE <<Head(a)>> \o CommonPath(Tail(a), Tail(b))

\* os.path.relpath(p, start) of two normalised absolute paths, as segments
\* ("." when they are equal)
RelPath(p, start) ==
    LET c == Len(CommonPath(p, start))
        ups == [i \in 1..(Len(start) - c) |-> ".."]
        rel == ups \o SubSeq(p, c + 1, Len(p))
    IN IF rel = <<>> THEN <<".">> ELSE rel

\* the string of a relative path
RECURSIVE RelStr(_)
RelStr(r) ==
    IF Len(r) = 1 THEN Head(r) ELSE Head(r) \o Sep \o RelStr(Tail(r))

(***************************************************************************)
(* The filesystem.                                                         *)
(***************************************************************************)
DirNode == [kind |-> "dir", data |-> "", target |-> <<>>]

FileNode(d) == [kind |-> "file", data |-> d, target |-> <<>>]

LinkNode(t) == [kind |-> "link", data |-> "", target |-> t]

\* Kernel path resolution from the root: every intermediate component must
\* be a directory, symbolic links are followed (the last one only when
\* followLast).  ok = FALSE is ENOENT/ENOTDIR/ELOOP; otherwise path is the
\* canonical place of the entry, which may not exist.
RECURSIVE Walk(_, _, _, _, _)
Walk(f, cur, rest, followLast, budget) ==
    IF rest = <<>> THEN [ok |-> TRUE, path |-> cur]
    ELSE
      LET name == Head(rest)
          tl == Tail(rest)
          new == Append(cur, name)
      IN IF name = "." THEN Walk(f, cur, tl, followLast, budget)
         ELSE IF name = ".." THEN Walk(f, Parent(cur), tl, followLast, budget)
         ELSE IF new \notin DOMAIN f
              THEN [ok |-> tl = <<>>, path |-> new]
         ELSE IF f[new].kind = "link"
              THEN IF tl = <<>> /\ ~followLast THEN [ok |-> TRUE, path |-> new]
                   ELSE IF budget = 0 THEN [ok |-> FALSE, path |-> new]
                   ELSE Walk(f, <<>>, f[new].target \o tl, followLast, budget - 1)
         ELSE IF f[new].kind = "dir" THEN Walk(f, new, tl, followLast, budget)
         ELSE [ok |-> tl = <<>>, path |-> new]

Resolve(f, p, followLast) == Walk(f, <<>>, p, followLast, Cardinality(DOMAIN f))

\* os.path.exists: stat() succeeds
Exists(f, p) ==
    LET r == Resolve(f, p, TRUE) IN r.ok /\ r.path \in DOMAIN f

\* os.path.islink: lstat() succeeds and reports a symbolic link
IsLink(f, p) ==
    LET r == Resolve(f, p, FALSE)
    IN r.ok /\ r.path \in DOMAIN f /\ f[r.path].kind = "link"

\* os.path.isdir
IsDir(f, p) ==
    LET r == Resolve(f, p, TRUE)
    IN r.ok /\ r.path \in DOMAIN f /\ f[r.path].kind = "dir"

\* os.path.realpath (not strict): symbolic links of existing components are
\* resolved, missing components are kept, ".." is taken from the resolved
\* prefix, and a link met again while it is being resolved (a loop) leaves
\* the rest of the path unresolved.
RECURSIVE JoinRealPath(_, _, _, _)
JoinRealPath(f, path, rest, seen) ==
    IF rest = <<>> THEN [path |-> path, ok |-> TRUE]
    ELSE
      LET name == Head(rest)
          tl == Tail(rest)
          newpath == Append(path, name)
      IN IF name = "." THEN JoinRealPath(f, path, tl, seen)
         ELSE IF name = ".." THEN JoinRealPath(f, Parent(path), tl, seen)
         ELSE IF ~(newpath \in DOMAIN f /\ f[newpath].kind = "link")
              THEN JoinRealPath(f, newpath, tl, seen)
         ELSE IF newpath \in seen
              THEN [path |-> newpath \o tl, ok |-> FALSE]
         ELSE LET r == JoinRealPath(f, <<>>, f[newpath].target,
                                    seen \cup {newpath})
              IN IF ~r.ok THEN [path |-> r.path \o tl, ok |-> FALSE]
                 ELSE JoinRealPath(f, r.path, tl, seen)

RealPath(f, p) == AbsPath(JoinRealPath(f, <<>>, p, {}).path)

\* os.mkdir: the last component is not followed and must not exist
MkDir(f, p) ==
    LET r == Resolve(f, p, FALSE)
    IN IF r.ok /\ r.path \notin DOMAIN f /\ p # <<>>
       THEN [ok |-> TRUE, fs |-> (r.path :> DirNode) @@ f]
       ELSE [ok |-> FALSE, fs |-> f]

\* os.makedirs(p, exist_ok=True) (and Path.mkdir(parents=True, exist_ok=True)):
\* missing parents first, then the directory itself; an existing directory
\* is accepted, anything else in the way is an error.  Directories created
\* before the error stay.
RECURSIVE MakeDirs(_, _)
MakeDirs(f, p) ==
    IF p = <<>> THEN [ok |-> TRUE, fs |-> f]
    ELSE
      LET up == IF Exists(f, Parent(p)) THEN [ok |-> TRUE, fs |-> f]
                ELSE MakeDirs(f, Parent(p))
          made == MkDir(up.fs, p)
      IN IF made.ok THEN made
         ELSE [ok |-> up.ok /\ IsDir(up.fs, p), fs |-> up.fs]

\* open(p, "wb") and write d: the last component is followed, the parent
\* must exist, a directory cannot be opened for writing
WriteFile(f, p, d) ==
    LET r == Resolve(f, p, TRUE)
    IN IF r.ok /\ p # <<>> /\ (r.path \in DOMAIN f => f[r.path].kind = "file")
       THEN [ok |-> TRUE, fs |-> (r.path :> FileNode(d)) @@ f]
       ELSE [ok |-> FALSE, fs |-> f]

\* os.rename(src, dst) of a regular file src (a canonical path): the entry
\* at dst, a file or a symbolic link, is replaced; the link is not followed
Rename(f, src, dst) ==
    LET r == Resolve(f, dst, FALSE)
    IN IF r.ok /\ dst # <<>> /\ src \in DOMAIN f
          /\ (r.path \in DOMAIN f => f[r.path].kind # "dir")
       THEN [ok |-> TRUE,
             fs |-> [q \in (DOMAIN f \cup {r.path}) \ {src} |->
                        IF q = r.path THEN f[src] ELSE f[q]]]
       ELSE [ok |-> FALSE, fs |-> f]

\* shutil.move(src, dst): into dst when dst is a directory (refused when the
\* name is taken there), else a rename onto dst
ShutilMove(f, src, dst) ==
    IF IsDir(f, dst)
    THEN LET real_dst == Append(dst, Last(src))
         IN IF Exists(f, real_dst) THEN [ok |-> FALSE, fs |-> f]
            ELSE Rename(f, src, real_dst)
    ELSE Rename(f, src, dst)

\* shutil.rmtree(p) of a canonical directory path
RmTree(f, p) == [q \in {x \in DOMAIN f : ~IsSegPrefix(p, x)} |-> f[q]]

\* names of the entries of directory d (os.scandir)
ListDir(f, d) == {Last(q) : q \in {x \in DOMAIN f : x # <<>> /\ Parent(x) = d}}

(***************************************************************************)
(* tts_runner.py: the pure parts.                                          *)
(***************************************************************************)
TmpDir == <<"tmp">>

\* allowed_temp_dirs of validate_output_path
AllowedTempDirs(f, td) ==
    <<RealPath(f, td)>> \o
    (IF Exists(f, TmpDir) THEN <<RealPath(f, TmpDir)>> ELSE <<>>)

\* InTempDir with the separator left out of the string test
InTempDir_StringPrefix(output_real, temp_dir) ==
    \/ StartsWith(PathStr(output_real), PathStr(temp_dir))
    \/ output_real = temp_dir
    \/ CommonPath(output_real, temp_dir) = temp_dir

\* the test of one allowed directory in validate_output_path's loop
InTempDir(output_real, temp_dir) ==
    \/ StartsWith(PathStr(output_real), PathStr(temp_dir) \o Sep)
    \/ output_real = temp_dir
    \/ CommonPath(output_real, temp_dir) = temp_dir

\* the loop over allowed_temp_dirs: index of the first match, 0 if none
MatchedIndex(output_real, dirs) ==
    LET hits == {i \in 1..Len(dirs) : InTempDir(output_real, dirs[i])}
    IN IF hits = {} THEN 0
       ELSE CHOOSE i \in hits : \A j \in hits : i <= j

\* the walk over the components between the matched directory and the
\* output: TRUE when an existing component is a symbolic link
RECURSIVE SymlinkedComponent(_, _, _)
SymlinkedComponent(f, current, parts) ==
    IF parts = <<>> THEN FALSE
    ELSE IF Head(parts) = "" \/ Head(parts) = "."
         THEN SymlinkedComponent(f, current, Tail(parts))
    ELSE LET next == Append(current, Head(parts))
         IN \/ (Exists(f, next) /\ IsLink(f, next))
            \/ SymlinkedComponent(f, next, Tail(parts))

\* validate_output_path: "ok" when it returns, else the error it raises
validate_output_path(f, td, output_path) ==
    LET allowed_temp_dirs == AllowedTempDirs(f, td)
        output_real == RealPath(f, output_path)
        m == MatchedIndex(output_real, allowed_temp_dirs)
    IN IF m = 0 THEN "InvalidOutputPath"
       ELSE LET matched_temp_dir == allowed_temp_dirs[m]
                rel_path == RelPath(output_real, matched_temp_dir)
            IN IF /\ ~StartsWith(RelStr(rel_path), "..")
                  /\ SymlinkedComponent(f, matched_temp_dir, rel_path)
               THEN "SymlinkedComponent"
               ELSE "ok"

\* platform.system() == "Darwin" and platform.machine() in ("arm64", "aarch64")
AppleSilicon(pr) == pr.system = "Darwin" /\ pr.machine \in {"arm64", "aarch64"}

\* detect_backend with the MPS query put before the CUDA query
detect_backend_MpsBeforeCuda(pr) ==
    IF AppleSilicon(pr) /\ pr.mlx = "ok"
    THEN [backend |-> "mlx", error |-> "none"]
    ELSE IF AppleSilicon(pr) /\ pr.mlx # "ImportError"
    THEN [backend |-> "none", error |-> "ProbeError"]
    ELSE IF pr.torch = "ImportError"
    THEN [backend |-> "none", error |-> "MissingRuntime"]
    ELSE IF pr.mps = "raise"
    THEN [backend |-> "none", error |-> "ProbeError"]
    ELSE IF pr.mps = "yes"
    THEN [backend |-> "mps", error |-> "none"]
    ELSE IF pr.cuda = "raise"
    THEN [backend |-> "none", error |-> "ProbeError"]
    ELSE IF pr.cuda = "yes"
    THEN [backend |-> "cuda", error |-> "none"]
    ELSE [backend |-> "cpu", error |-> "none"]

\* detect_backend: the backend it returns, or the error it raises
detect_backend(pr) ==
    IF AppleSilicon(pr) /\ pr.mlx = "ok"
    THEN [backend |-> "mlx", error |-> "none"]
    ELSE IF AppleSilicon(pr) /\ pr.mlx # "ImportError"
    THEN [backend |-> "none", error |-> "ProbeError"]
    ELSE IF pr.torch = "ImportError"
    THEN [backend |-> "none", error |-> "MissingRuntime"]
    ELSE IF pr.cuda = "raise"
    THEN [backend |-> "none", error |-> "ProbeError"]
    ELSE IF pr.cuda = "yes"
    THEN [backend |-> "cuda", error |-> "none"]
    ELSE IF pr.mps = "raise"
    THEN [backend |-> "none", error |-> "ProbeError"]
    ELSE IF pr.mps = "yes"
    THEN [backend |-> "mps", error |-> "none"]
    ELSE [backend |-> "cpu", error |-> "none"]

\* the containment check at the head of generate_with_mlx
MlxPathAllowed(f, td, output_path) ==
    LET base_temp == RealPath(f, td)
        output_real == RealPath(f, DirName(AbsPath(output_path)))
    IN CommonPath(output_real, base_temp) = base_temp

\* str.replace(".wav", "")
RECURSIVE DropWav(_)
DropWav(s) ==
    IF Len(s) < Len(".wav") THEN s
    ELSE IF SubSeq(s, 1, Len(".wav")) = ".wav"
         THEN DropWav(SubSeq(s, Len(".wav") + 1, Len(s)))
    ELSE SubSeq(s, 1, 1) \o DropWav(SubSeq(s, 2, Len(s)))

\* output_basename of generate_with_mlx
OutputBasename(output_path) == DropWav(BaseName(AbsPath(output_path)))

Digit(i) == CASE i = 0 -> "0" [] i = 1 -> "1" [] i = 2 -> "2" [] i = 3 -> "3"
              [] OTHER -> "9"

\* the i-th file mlx_audio writes for file_prefix: {prefix}_00i.wav
ArtifactName(prefix, i) == prefix \o "_00" \o Digit(i) \o ".wav"

\* glob.glob(f"{output_basename}*.wav") in directory d
GlobWav(f, d, prefix) ==
    {n \in ListDir(f, d) :
        /\ Len(n) >= Len(prefix) + Len(".wav")
        /\ StartsWith(n, prefix)
        /\ EndsWith(n, ".wav")}

(***************************************************************************)
(* Hosts, filesystems and command lines the runs start from.               *)
(***************************************************************************)
VarT == <<"var", "T">>

WorkDir == <<"work">>

\* what /tmp is, and what tempfile.gettempdir() returns (TMPDIR)
Layouts ==
    { [tmp |-> "dir",  tempdir |-> TmpDir],
      [tmp |-> "dir",  tempdir |-> VarT],
      [tmp |-> "link", tempdir |-> TmpDir],
      [tmp |-> "link", tempdir |-> VarT],
      [tmp |-> "none", tempdir |-> VarT] }

\* the real directory behind gettempdir()
BaseOf(l) == IF l.tmp = "dir" /\ l.tempdir = TmpDir THEN TmpDir ELSE VarT

\* a directory next to p whose name has p's name as a string prefix
SiblingOf(p) == Append(Parent(p), Last(p) \o "foo")

VictimStates == {"absent", "empty", "old"}

EvilTargets == {"absent", "passwd", "victim", "dir", "ghost", "loop"}

Passwd == <<"etc", "passwd">>

EvilTarget(base, e) ==
    CASE e = "passwd" -> Passwd
      [] e = "victim" -> Append(base, "victim.wav")
      [] e = "dir"    -> Append(base, "dir")
      [] e = "ghost"  -> Append(base, "ghost.wav")
      [] OTHER        -> Append(base, "evil")

\* the filesystem of a host
MkFs(l, victim, evil) ==
    LET base == BaseOf(l)
        fixed == (<<>> :> DirNode) @@ (<<"etc">> :> DirNode)
                 @@ (Passwd :> FileNode("root")) @@ (<<"var">> :> DirNode)
                 @@ (VarT :> DirNode) @@ (WorkDir :> DirNode)
                 @@ (SiblingOf(base) :> DirNode)
                 @@ (Append(base, "dir") :> DirNode)
        tmp == CASE l.tmp = "dir"  -> (TmpDir :> DirNode)
                 [] l.tmp = "link" -> (TmpDir :> LinkNode(VarT))
                 [] OTHER          -> <<>>
        vic == CASE victim = "empty" -> (Append(base, "victim.wav") :> FileNode(""))
                 [] victim = "old"   -> (Append(base, "victim.wav") :> FileNode("old"))
                 [] OTHER            -> <<>>
        evl == IF evil = "absent" THEN <<>>
               ELSE (Append(base, "evil") :> LinkNode(EvilTarget(base, evil)))
    IN fixed @@ tmp @@ vic @@ evl

\* the --output values tried on a host whose gettempdir() is td
OutputsFor(td) ==
    { td \o <<"out.wav">>,
      td \o <<"x", "y", "out.wav">>,
      td \o <<"evil">>,
      td \o <<"evil", "out.wav">>,
      td \o <<"victim.wav">>,
      td \o <<"dir", "..", "out.wav">>,
      td \o <<"..", "out.wav">>,
      td \o <<"dir">>,
      td,
      SiblingOf(td) \o <<"out.wav">>,
      TmpDir \o <<"out.wav">>,
      Passwd }

Systems == {"Darwin", "Linux"}

Machines == {"arm64", "x86_64", "aarch64"}

\* every answer the host can give to detect_backend's checks
HostProbes ==
    [system : Systems, machine : Machines,
     mlx : {"ok", "ImportError", "OSError"},
     torch : {"ok", "ImportError"},
     cuda : {"yes", "no", "raise"},
     mps : {"yes", "no", "raise", "absent"}]

MkProbe(sys, mach, mlx, torch, cuda, mps) ==
    [system |-> sys, machine |-> mach, mlx |-> mlx, torch |-> torch,
     cuda |-> cuda, mps |-> mps]

\* one host per outcome of detect_backend
JobProbes ==
    { MkProbe("Darwin", "arm64", "ok", "ok", "no", "yes"),
      MkProbe("Linux", "x86_64", "ImportError", "ok", "yes", "absent"),
      MkProbe("Darwin", "arm64", "ImportError", "ok", "no", "yes"),
      MkProbe("Linux", "x86_64", "ImportError", "ok", "no", "no"),
      MkProbe("Linux", "x86_64", "ImportError", "ImportError", "no", "no"),
      MkProbe("Linux", "x86_64", "ImportError", "ok", "raise", "no") }

CpuProbe == MkProbe("Linux", "x86_64", "ImportError", "ok", "no", "no")

TextInputs == {"", "  ", "hi", " hi "}

PlainLayout == [tmp |-> "dir", tempdir |-> TmpDir]

Tools == {"tts", "kokoro"}

\* the second job before it has started
IdlePeer == [pc |-> "idle", scratch |-> <<>>, generated |-> "", emitted |-> 0]

\* A run starts from a host (layout, victim, evil link, probe answers) and a
\* command line (tool, text, output).  Every filesystem is combined with
\* every output for one host per backend; every probe answer and every
\* text is combined with the plain host.
Init ==
    \E l \in Layouts, v \in VictimStates, e \in EvilTargets,
       t \in Tools, txt \in TextInputs, pr \in HostProbes :
      \E o \in OutputsFor(l.tempdir) :
        /\ t = "kokoro" => pr = CpuProbe
        /\ \/ /\ pr \in JobProbes
              /\ txt = "hi"
           \/ /\ l = PlainLayout /\ v = "absent" /\ e = "absent"
              /\ o = TmpDir \o <<"out.wav">>
        /\ fs = MkFs(l, v, e)
        /\ fs0 = fs
        /\ peer = IdlePeer
        /\ tool = t
        /\ text = txt
        /\ output = o
        /\ tempdir = l.tempdir
        /\ probe = pr
        /\ pc = "start"
        /\ validation = "none"
        /\ backend = "none"
        /\ error = "none"
        /\ exit = -1
        /\ scratch = <<>>
        /\ cwd = WorkDir
        /\ generated = ""
        /\ invoked = FALSE
        /\ rmtreeCalls = 0
        /\ torchLoad = "original"
        /\ original_cwd = <<>>
        /\ emitted = 0
        /\ moved = FALSE

(***************************************************************************)
(* tts_runner.py: main and the generators, one action per step.            *)
(***************************************************************************)
\* an exception leaves main (lines 277-279): the interpreter exits with 1
Raise(e) ==
    /\ error' = e
    /\ pc' = "done"
    /\ exit' = 1

\* main returns: the interpreter exits with 0
Return ==
    /\ pc' = "done"
    /\ exit' = 0

\* AfterValidate with the error of validate_output_path swallowed
AfterValidate_Continue(v) == "detect"

\* where main goes after validate_output_path
AfterValidate(v) == IF v = "ok" THEN "detect" ELSE "done"

\* main, lines 246-251: the text check
TtsStart ==
    /\ tool = "tts" /\ pc = "start"
    /\ IF Strip(text) = ""
       THEN Return /\ UNCHANGED error
       ELSE pc' = "validate" /\ UNCHANGED <<error, exit>>
    /\ UNCHANGED <<fs, fs0, peer, tool, text, output, tempdir, probe, validation,
                   backend, scratch, cwd, generated, invoked, rmtreeCalls,
                   torchLoad, original_cwd, emitted, moved>>

\* main, line 255: validate_output_path(args.output)
TtsValidate ==
    /\ pc = "validate"
    /\ LET v == validate_output_path(fs, tempdir, output)
       IN /\ validation' = v
          /\ pc' = AfterValidate(v)
          /\ IF AfterValidate(v) = "done"
             THEN error' = v /\ exit' = 1
             ELSE UNCHANGED <<error, exit>>
    /\ UNCHANGED <<fs, fs0, peer, tool, text, output, tempdir, probe, backend,
                   scratch, cwd, generated, invoked, rmtreeCalls, torchLoad,
                   original_cwd, emitted, moved>>

\* main, lines 258-273: detect_backend() and the dispatch on its result
TtsDetect ==
    /\ pc = "detect"
    /\ LET r == detect_backend(probe)
       IN /\ backend' = r.backend
          /\ IF r.error # "none" THEN Raise(r.error)
             ELSE /\ pc' = IF r.backend = "mlx" THEN "mlx_check" ELSE "pt_setup"
                  /\ UNCHANGED <<error, exit>>
    /\ UNCHANGED <<fs, fs0, peer, tool, text, output, tempdir, probe, validation,
                   scratch, cwd, generated, invoked, rmtreeCalls, torchLoad,
                   original_cwd, emitted, moved>>

\* generate_with_mlx, lines 61-81: the import of generate_audio, which can
\* fail, and the containment check
MlxCheck ==
    /\ pc = "mlx_check"
    /\ \E importable \in BOOLEAN :
         IF ~importable THEN Raise("ImportFailed")
         ELSE IF MlxPathAllowed(fs, tempdir, output)
         THEN pc' = "mlx_mkdtemp" /\ UNCHANGED <<error, exit>>
         ELSE Raise("OutsideTempDir")
    /\ UNCHANGED <<fs, fs0, peer, tool, text, output, tempdir, probe, validation,
                   backend, scratch, cwd, generated, invoked, rmtreeCalls,
                   torchLoad, original_cwd, emitted, moved>>

ScratchNames == {"mlx_audio_a", "mlx_audio_b"}

\* MlxMkdtemp with a fixed directory name that is reused when it exists
MlxMkdtemp_FixedName ==
    /\ pc = "mlx_mkdtemp"
    /\ LET d == Append(RealPath(fs, tempdir), "mlx_audio_a")
       IN /\ fs' = (d :> DirNode) @@ fs
          /\ scratch' = d
    /\ original_cwd' = cwd
    /\ pc' = "mlx_enter"
    /\ UNCHANGED <<fs0, peer, tool, text, output, tempdir, probe, validation,
                   backend, error, exit, cwd, generated, invoked, rmtreeCalls,
                   torchLoad, emitted, moved>>

\* generate_with_mlx, lines 88-91: os.getcwd() and tempfile.mkdtemp under
\* base_temp, with a name no entry has
MlxMkdtemp ==
    /\ pc = "mlx_mkdtemp"
    /\ \E n \in ScratchNames :
         LET d == Append(RealPath(fs, tempdir), n)
         IN /\ d \notin DOMAIN fs
            /\ fs' = (d :> DirNode) @@ fs
            /\ scratch' = d
    /\ original_cwd' = cwd
    /\ pc' = "mlx_enter"
    /\ UNCHANGED <<fs0, peer, tool, text, output, tempdir, probe, validation,
                   backend, error, exit, cwd, generated, invoked, rmtreeCalls,
                   torchLoad, emitted, moved>>

\* generate_with_mlx, lines 95-99: chdir into the scratch directory and
\* os.makedirs(output_dir, exist_ok=True)
MlxEnter ==
    /\ pc = "mlx_enter"
    /\ cwd' = scratch
    /\ LET r == MakeDirs(fs, DirName(AbsPath(output)))
       IN /\ fs' = r.fs
          /\ IF r.ok THEN pc' = "mlx_generate" /\ UNCHANGED error
             ELSE pc' = "mlx_finally" /\ error' = "MakedirsFailed"
    /\ UNCHANGED <<fs0, peer, tool, text, output, tempdir, probe, validation,
                   backend, exit, scratch, generated, invoked, rmtreeCalls,
                   torchLoad, original_cwd, emitted, moved>>

\* the files generate_audio leaves in directory d: k files named after prefix
EmitFiles(f, d, prefix, k) ==
    [q \in {Append(d, ArtifactName(prefix, i)) : i \in 0..(k - 1)} |->
        FileNode("audio")] @@ f

\* generate_with_mlx, lines 102-110: generate_audio writes its files into
\* the working directory, and returns or raises
MlxGenerate ==
    /\ pc = "mlx_generate"
    /\ invoked' = TRUE
    /\ \E k \in 0..MaxArtifacts, raises \in BOOLEAN :
         /\ fs' = EmitFiles(fs, cwd, OutputBasename(output), k)
         /\ emitted' = k
         /\ IF raises THEN pc' = "mlx_finally" /\ error' = "BackendFailure"
            ELSE pc' = "mlx_glob" /\ UNCHANGED error
    /\ UNCHANGED <<fs0, peer, tool, text, output, tempdir, probe, validation,
                   backend, exit, scratch, cwd, generated, rmtreeCalls,
                   torchLoad, original_cwd, moved>>

\* what generate_with_mlx does with the files the glob returned: the error
\* it raises, "none" to go on with one of them
ArtifactPolicy(generated_files) ==
    IF generated_files = {} THEN "ArtifactNotFound" ELSE "none"

\* generate_with_mlx, lines 113-122: the glob and generated_files[0] (glob
\* returns the names in directory order, so any of them can be first)
MlxFindArtifact ==
    /\ pc = "mlx_glob"
    /\ LET generated_files == GlobWav(fs, cwd, OutputBasename(output))
       IN IF ArtifactPolicy(generated_files) # "none"
          THEN /\ pc' = "mlx_finally"
               /\ error' = ArtifactPolicy(generated_files)
               /\ UNCHANGED generated
          ELSE /\ \E g \in generated_files : generated' = g
               /\ pc' = "mlx_recheck"
               /\ UNCHANGED error
    /\ UNCHANGED <<fs, fs0, peer, tool, text, output, tempdir, probe, validation,
                   backend, exit, scratch, cwd, invoked, rmtreeCalls,
                   torchLoad, original_cwd, emitted, moved>>

\* the destination test before the move: TRUE when the move is refused
DestinationRefused(f, output_path) ==
    Exists(f, output_path) /\ IsLink(f, output_path)

\* generate_with_mlx, lines 125-126
MlxRecheck ==
    /\ pc = "mlx_recheck"
    /\ IF DestinationRefused(fs, AbsPath(output))
       THEN pc' = "mlx_finally" /\ error' = "DestinationIsSymlink"
       ELSE pc' = "mlx_move" /\ UNCHANGED error
    /\ UNCHANGED <<fs, fs0, peer, tool, text, output, tempdir, probe, validation,
                   backend, exit, scratch, cwd, generated, invoked,
                   rmtreeCalls, torchLoad, original_cwd, emitted, moved>>

\* generate_with_mlx, lines 129-133: shutil.move unless the file is in place
MlxMove ==
    /\ pc = "mlx_move"
    /\ LET src_abs == Append(scratch, generated)
           r == ShutilMove(fs, src_abs, AbsPath(output))
       IN IF AbsPath(src_abs) = AbsPath(output)
          THEN UNCHANGED <<fs, error, moved>>
          ELSE /\ fs' = r.fs
               /\ moved' = r.ok
               /\ error' = IF r.ok THEN error ELSE "MoveFailed"
    /\ pc' = "mlx_finally"
    /\ UNCHANGED <<fs0, peer, tool, text, output, tempdir, probe, validation,
                   backend, exit, scratch, cwd, generated, invoked,
                   rmtreeCalls, torchLoad, original_cwd, emitted>>

\* generate_with_mlx, line 137: os.chdir(original_cwd); it raises when the
\* directory is gone or not accessible any more, and the exception leaves
\* the finally block
MlxRestoreCwd ==
    /\ pc = "mlx_finally"
    /\ \E ok \in BOOLEAN :
         IF ok
         THEN cwd' = original_cwd /\ pc' = "mlx_rmtree" /\ UNCHANGED <<error, exit>>
         ELSE Raise("ChdirFailed") /\ UNCHANGED cwd
    /\ UNCHANGED <<fs, fs0, peer, tool, text, output, tempdir, probe, validation,
                   backend, scratch, generated, invoked, rmtreeCalls,
                   torchLoad, original_cwd, emitted, moved>>

\* MlxCleanup with a failure of shutil.rmtree raised instead of logged
MlxCleanup_Escalate ==
    /\ pc = "mlx_rmtree"
    /\ rmtreeCalls' = rmtreeCalls + 1
    /\ \E ok \in BOOLEAN :
         /\ fs' = IF ok THEN RmTree(fs, scratch) ELSE fs
         /\ error' = IF ok THEN error ELSE "CleanupFailed"
    /\ pc' = "done"
    /\ exit' = IF error' = "none" THEN 0 ELSE 1
    /\ UNCHANGED <<fs0, peer, tool, text, output, tempdir, probe, validation,
                   backend, scratch, cwd, generated, invoked,
                   torchLoad, original_cwd, emitted, moved>>

\* generate_with_mlx, lines 139-142: shutil.rmtree(safe_work_dir), a failure
\* is logged; then the pending exception, if any, leaves main
MlxCleanup ==
    /\ pc = "mlx_rmtree"
    /\ rmtreeCalls' = rmtreeCalls + 1
    /\ \E ok \in BOOLEAN :
         fs' = IF ok THEN RmTree(fs, scratch) ELSE fs
    /\ pc' = "done"
    /\ exit' = IF error = "none" THEN 0 ELSE 1
    /\ UNCHANGED <<fs0, peer, tool, text, output, tempdir, probe, validation,
                   backend, error, scratch, cwd, generated, invoked,
                   torchLoad, original_cwd, emitted, moved>>

\* generate_with_pytorch, lines 147-161: the imports, which can fail, and
\* the patch of torch.load
PtSetup ==
    /\ pc = "pt_setup"
    /\ \E importable \in BOOLEAN :
         IF importable
         THEN torchLoad' = "patched" /\ pc' = "pt_generate" /\ UNCHANGED <<error, exit>>
         ELSE Raise("ImportFailed") /\ UNCHANGED torchLoad
    /\ UNCHANGED <<fs, fs0, peer, tool, text, output, tempdir, probe, validation,
                   backend, scratch, cwd, generated, invoked, rmtreeCalls,
                   original_cwd, emitted, moved>>

\* generate_with_pytorch, lines 166-175: the model is loaded and run
PtGenerate ==
    /\ pc = "pt_generate"
    /\ invoked' = TRUE
    /\ \E raises \in BOOLEAN :
         IF raises THEN pc' = "pt_finally" /\ error' = "BackendFailure"
         ELSE pc' = "pt_save" /\ UNCHANGED error
    /\ UNCHANGED <<fs, fs0, peer, tool, text, output, tempdir, probe, validation,
                   backend, exit, scratch, cwd, generated, rmtreeCalls,
                   torchLoad, original_cwd, emitted, moved>>

\* what generate_with_pytorch does to the filesystem to save the audio
PtWrite(f, output_path) == WriteFile(f, output_path, "audio")

\* generate_with_pytorch, line 179: ta.save(output_path, ...)
PtSave ==
    /\ pc = "pt_save"
    /\ LET r == PtWrite(fs, output)
       IN /\ fs' = r.fs
          /\ error' = IF r.ok THEN error ELSE "SaveFailed"
    /\ pc' = "pt_finally"
    /\ UNCHANGED <<fs0, peer, tool, text, output, tempdir, probe, validation,
                   backend, exit, scratch, cwd, generated, invoked,
                   rmtreeCalls, torchLoad, original_cwd, emitted, moved>>

\* generate_with_pytorch, lines 181-183: torch.load is restored; then the
\* pending exception, if any, leaves main
PtFinally ==
    /\ pc = "pt_finally"
    /\ torchLoad' = "original"
    /\ pc' = "done"
    /\ exit' = IF error = "none" THEN 0 ELSE 1
    /\ UNCHANGED <<fs, fs0, peer, tool, text, output, tempdir, probe, validation,
                   backend, error, scratch, cwd, generated, invoked,
                   rmtreeCalls, original_cwd, emitted, moved>>

(***************************************************************************)
(* kokoro_runner.py: main.                                                 *)
(***************************************************************************)
\* --speed, in tenths
MinSpeed == 5

MaxSpeed == 20

SpeedInputs == {MinSpeed - 1, MinSpeed, MaxSpeed, MaxSpeed + 1}

\* the checks before the try block: the error that ends the run with
\* sys.exit(1), "none" when all pass
KokoroPrecheck(importable, txt, speed, filesPresent) ==
    IF ~importable THEN "ImportFailed"
    ELSE IF Strip(txt) = "" THEN "EmptyText"
    ELSE IF speed < MinSpeed \/ speed > MaxSpeed THEN "BadSpeed"
    ELSE IF ~filesPresent THEN "MissingModelFiles"
    ELSE "none"

\* kokoro_runner.py, lines 20-27 and 89-101
KokoroStart ==
    /\ tool = "kokoro" /\ pc = "start"
    /\ \E importable \in BOOLEAN, speed \in SpeedInputs, filesPresent \in BOOLEAN :
         LET e == KokoroPrecheck(importable, text, speed, filesPresent)
         IN IF e # "none" THEN Raise(e)
            ELSE pc' = "k_generate" /\ UNCHANGED <<error, exit>>
    /\ UNCHANGED <<fs, fs0, peer, tool, text, output, tempdir, probe, validation,
                   backend, scratch, cwd, generated, invoked, rmtreeCalls,
                   torchLoad, original_cwd, emitted, moved>>

\* kokoro_runner.py, lines 109-125: Kokoro(...).create(...)
KokoroGenerate ==
    /\ pc = "k_generate"
    /\ invoked' = TRUE
    /\ \E result \in {"raise", "empty", "samples"} :
         CASE result = "raise" -> Raise("BackendFailure")
           [] result = "empty" -> Raise("NoAudio")
           [] OTHER -> pc' = "k_write" /\ UNCHANGED <<error, exit>>
    /\ UNCHANGED <<fs, fs0, peer, tool, text, output, tempdir, probe, validation,
                   backend, scratch, cwd, generated, rmtreeCalls, torchLoad,
                   original_cwd, emitted, moved>>

\* what kokoro's main does to the filesystem to save the audio: the parent
\* directories, then the file
KokoroWrite(f, output_path) ==
    LET d == MakeDirs(f, Parent(output_path))
    IN IF d.ok THEN WriteFile(d.fs, output_path, "audio")
       ELSE [ok |-> FALSE, fs |-> d.fs]

\* kokoro_runner.py, lines 128-142
KokoroSave ==
    /\ pc = "k_write"
    /\ LET r == KokoroWrite(fs, output)
       IN /\ fs' = r.fs
          /\ IF r.ok THEN Return /\ UNCHANGED error ELSE Raise("SaveFailed")
    /\ UNCHANGED <<fs0, peer, tool, text, output, tempdir, probe, validation,
                   backend, scratch, cwd, generated, invoked, rmtreeCalls,
                   torchLoad, original_cwd, emitted, moved>>

Next ==
    \/ TtsStart
    \/ TtsValidate
    \/ TtsDetect
    \/ MlxCheck
    \/ MlxMkdtemp
    \/ MlxEnter
    \/ MlxGenerate
    \/ MlxFindArtifact
    \/ MlxRecheck
    \/ MlxMove
    \/ MlxRestoreCwd
    \/ MlxCleanup
    \/ PtSetup
    \/ PtGenerate
    \/ PtSave
    \/ PtFinally
    \/ KokoroStart
    \/ KokoroGenerate
    \/ KokoroSave

Spec == Init /\ [][Next]_vars

(***************************************************************************)
(* Another process of the host that changes the output path while          *)
(* generate_with_mlx runs, between validate_output_path and the test of    *)
(* line 125.                                                               *)
(***************************************************************************)
\* positions of main between validate_output_path and the test of line 125
RaceWindow ==
    {"mlx_check", "mlx_mkdtemp", "mlx_enter", "mlx_generate", "mlx_glob",
     "mlx_recheck"}

\* where the other process points its links: a file outside the temporary
\* directories, or a name inside that does not exist
SwapTargets(f, td) == {Passwd, EvilTarget(RealPath(f, td), "ghost")}

\* ln -sf t dest: the file at dest, or nothing, is replaced by a link to t
SwapDestination(f, dest, t) ==
    LET r == Resolve(f, dest, FALSE)
    IN IF /\ r.ok /\ dest # <<>>
          /\ (r.path \in DOMAIN f => f[r.path].kind = "file")
       THEN [ok |-> TRUE, fs |-> (r.path :> LinkNode(t)) @@ f]
       ELSE [ok |-> FALSE, fs |-> f]

\* rm -r dir; ln -s /etc dir, for the directory that holds dest, when it
\* lies below the temporary directory td and does not hold keep
SwapAncestor(f, dest, td, keep) ==
    LET r == Resolve(f, Parent(dest), TRUE)
        base == RealPath(f, td)
    IN IF /\ r.ok /\ r.path \in DOMAIN f /\ f[r.path].kind = "dir"
          /\ IsSegPrefix(base, r.path) /\ r.path # base
          /\ ~IsSegPrefix(r.path, keep)
       THEN [ok |-> TRUE, fs |-> (r.path :> LinkNode(<<"etc">>)) @@ RmTree(f, r.path)]
       ELSE [ok |-> FALSE, fs |-> f]

\* one step of the other process
Interfere ==
    /\ tool = "tts" /\ pc \in RaceWindow
    /\ \/ \E t \in SwapTargets(fs, tempdir) :
             LET r == SwapDestination(fs, AbsPath(output), t)
             IN r.ok /\ fs' = r.fs
       \/ LET r == SwapAncestor(fs, AbsPath(output), tempdir, scratch)
          IN r.ok /\ fs' = r.fs
    /\ UNCHANGED <<fs0, peer, tool, text, output, tempdir, probe, pc, validation,
                   backend, error, exit, scratch, cwd, generated, invoked,
                   rmtreeCalls, torchLoad, original_cwd, emitted, moved>>

NextRace ==
    \/ Next
    \/ Interfere

SpecRace == Init /\ [][NextRace]_vars

(***************************************************************************)
(* Two MLX jobs at once: a second tts_runner.py process on the same host   *)
(* runs generate_with_mlx, lines 90-142, for an output of the same file    *)
(* name in another directory.  It has its own working directory and its    *)
(* own locals (peer); the filesystem is shared.                            *)
(***************************************************************************)
\* what the second job's backend writes
PeerAudio == "peer audio"

\* --output of the second job
PeerOutput == RealPath(fs0, tempdir) \o <<"dir", BaseName(AbsPath(output))>>

\* the variables of the first job that a step of the second leaves alone
JobVars ==
    <<fs0, tool, text, output, tempdir, probe, pc, validation, backend, error,
      exit, scratch, cwd, generated, invoked, rmtreeCalls, torchLoad,
      original_cwd, emitted, moved>>

\* the second job, line 91: tempfile.mkdtemp under base_temp
PeerMkdtemp ==
    /\ peer.pc = "idle"
    /\ \E n \in ScratchNames :
         LET d == Append(RealPath(fs, tempdir), n)
         IN /\ d \notin DOMAIN fs
            /\ fs' = (d :> DirNode) @@ fs
            /\ peer' = [peer EXCEPT !.pc = "generate", !.scratch = d]
    /\ UNCHANGED JobVars

\* the second job, lines 95-110: generate_audio writes into its working
\* directory, the scratch directory it entered, and returns or raises
PeerGenerate ==
    /\ peer.pc = "generate"
    /\ \E k \in 0..MaxArtifacts, raises \in BOOLEAN :
         /\ fs' = [q \in {Append(peer.scratch,
                                 ArtifactName(OutputBasename(PeerOutput), i)) :
                              i \in 0..(k - 1)} |-> FileNode(PeerAudio)] @@ fs
         /\ peer' = [peer EXCEPT !.pc = IF raises THEN "rmtree" ELSE "glob",
                                 !.emitted = k]
    /\ UNCHANGED JobVars

\* the second job, lines 113-133: the glob in its working directory and the
\* move of generated_files[0]
PeerRelocate ==
    /\ peer.pc = "glob"
    /\ LET generated_files == GlobWav(fs, peer.scratch, OutputBasename(PeerOutput))
       IN IF ArtifactPolicy(generated_files) # "none"
             \/ DestinationRefused(fs, PeerOutput)
          THEN /\ peer' = [peer EXCEPT !.pc = "rmtree"]
               /\ UNCHANGED fs
          ELSE \E g \in generated_files :
                 /\ fs' = ShutilMove(fs, Append(peer.scratch, g), PeerOutput).fs
                 /\ peer' = [peer EXCEPT !.pc = "rmtree", !.generated = g]
    /\ UNCHANGED JobVars

\* the second job, lines 135-142: shutil.rmtree of its scratch directory
PeerCleanup ==
    /\ peer.pc = "rmtree"
    /\ \E ok \in BOOLEAN :
         fs' = IF ok THEN RmTree(fs, peer.scratch) ELSE fs
    /\ peer' = [peer EXCEPT !.pc = "done"]
    /\ UNCHANGED JobVars

\* the host with the MLX runtimes
MlxProbe == MkProbe("Darwin", "arm64", "ok", "ok", "no", "yes")

\* the two jobs start on a host of each layout, without the victim file
\* and the planted link
InitJobs ==
    /\ Init
    /\ tool = "tts" /\ probe = MlxProbe
    /\ \E l \in Layouts : fs = MkFs(l, "absent", "absent")

NextJobs ==
    \/ TtsStart
    \/ TtsValidate
    \/ TtsDetect
    \/ MlxCheck
    \/ MlxMkdtemp
    \/ MlxEnter
    \/ MlxGenerate
    \/ MlxFindArtifact
    \/ MlxRecheck
    \/ MlxMove
    \/ MlxRestoreCwd
    \/ MlxCleanup
    \/ PeerMkdtemp
    \/ PeerGenerate
    \/ PeerRelocate
    \/ PeerCleanup

SpecJobs == InitJobs /\ [][NextJobs]_vars

(***************************************************************************)
(* Vocabulary of the properties.                                           *)
(***************************************************************************)
SymlinkFree(f) == \A q \in DOMAIN f : f[q].kind # "link"

\* the canonical form of a path on a filesystem without symbolic links
Canonical(p) == AbsPath(p)

\* the allowed roots, on a filesystem without symbolic links
PlainRoots(f, td) == {Canonical(td)} \cup (IF TmpDir \in DOMAIN f THEN {TmpDir} ELSE {})

\* some proper ancestor of p is a symbolic link to a directory
HasSymlinkAncestor(f, p) ==
    \E i \in 1..(Len(p) - 1) :
        IsLink(f, SubSeq(p, 1, i)) /\ IsDir(f, SubSeq(p, 1, i))

\* the entry p names (links followed) is the same in f and g
SameEntry(f, g, p) ==
    LET r == Resolve(f, p, TRUE)
    IN r.ok => /\ (r.path \in DOMAIN f) = (r.path \in DOMAIN g)
               /\ r.path \in DOMAIN f => g[r.path] = f[r.path]

\* the entry at p itself (the last link not followed) is the same in f and g
SameLink(f, g, p) ==
    LET r == Resolve(f, p, FALSE)
    IN r.ok /\ r.path \in DOMAIN f => r.path \in DOMAIN g /\ g[r.path] = f[r.path]

\* the freshly generated audio is the file the output path names
OutputProduced ==
    LET r == Resolve(fs, output, TRUE)
    IN r.ok /\ r.path \in DOMAIN fs /\ fs[r.path] = FileNode("audio")

\* positions of tts_runner's main after validate_output_path has returned
AfterValidation ==
    {"detect", "mlx_check", "mlx_mkdtemp", "mlx_enter", "mlx_generate",
     "mlx_glob", "mlx_recheck", "mlx_move", "mlx_finally", "mlx_rmtree",
     "pt_setup", "pt_generate", "pt_save", "pt_finally"}

PathErrors == {"InvalidOutputPath", "SymlinkedComponent"}

(***************************************************************************)
(* C1.  An output path that names an existing symbolic link when the job   *)
(* starts makes the job fail with a path error before any backend is       *)
(* invoked, and neither the link nor the file it points to is written or   *)
(* replaced, whichever backend is selected.                                *)
(***************************************************************************)
C1_SymlinkOutputRejected ==
    (tool = "tts" /\ IsLink(fs0, output) /\ Strip(text) # "") =>
        /\ validation # "none" => validation \in PathErrors
        /\ ~invoked
        /\ SameLink(fs0, fs, output)
        /\ SameEntry(fs0, fs, output)
        /\ pc = "done" => exit = 1

(***************************************************************************)
(* C2.  An output path with an existing ancestor component that is a       *)
(* symbolic link is rejected by validate_output_path, wherever the link    *)
(* points.                                                                 *)
(***************************************************************************)
C2_SymlinkAncestorRejected ==
    (tool = "tts" /\ validation # "none" /\ HasSymlinkAncestor(fs0, output)) =>
        validation \in PathErrors

(***************************************************************************)
(* C3.  On a filesystem without symbolic links validate_output_path        *)
(* accepts a path exactly when its canonical form is an allowed root or a  *)
(* path-segment descendant of one; a path that only has a root as a string *)
(* prefix is rejected.                                                     *)
(***************************************************************************)
C3_AcceptedIffUnderRoot ==
    (tool = "tts" /\ validation # "none" /\ SymlinkFree(fs0)) =>
        (validation = "ok" <=>
            \E r \in PlainRoots(fs0, tempdir) : IsSegPrefix(r, Canonical(output)))

\* the sibling whose name extends the root's name was validated and rejected
C3_Witness ==
    /\ tool = "tts" /\ SymlinkFree(fs0)
    /\ output = SiblingOf(tempdir) \o <<"out.wav">>
    /\ StartsWith(PathStr(output), PathStr(tempdir))
    /\ validation = "InvalidOutputPath"

(***************************************************************************)
(* C4.  The move of generate_with_mlx never replaces an existing non-empty *)
(* destination file: the job fails with a destination-exists error and    *)
(* the destination keeps its content.                                      *)
(***************************************************************************)
NonEmptyFile(f, p) ==
    LET r == Resolve(f, p, FALSE)
    IN r.ok /\ r.path \in DOMAIN f /\ f[r.path].kind = "file" /\ f[r.path].data # ""

\* the move step has just run
MoveStepDone ==
    /\ backend = "mlx" /\ pc = "mlx_finally"
    /\ generated # "" /\ error # "DestinationIsSymlink"

C4_NoOverwrite ==
    (MoveStepDone /\ NonEmptyFile(fs0, AbsPath(output))) =>
        /\ error = "DestinationExists"
        /\ SameLink(fs0, fs, AbsPath(output))

(***************************************************************************)
(* C5.  Whenever a scratch directory was created, at the end of the job    *)
(* its removal was attempted exactly once and it no longer exists.         *)
(***************************************************************************)
C5_ScratchReleased ==
    (pc = "done" /\ scratch # <<>>) =>
        rmtreeCalls = 1 /\ scratch \notin DOMAIN fs

(***************************************************************************)
(* C6.  detect_backend treats every availability check that raises as      *)
(* "not available": with the CPU runtime present it returns a backend, and *)
(* it returns "cpu" when all the optional checks raise.                    *)
(***************************************************************************)
DetectRan == tool = "tts" /\ validation = "ok" /\ pc # "detect"

AllChecksRaise(pr) == pr.mlx = "OSError" /\ pr.cuda = "raise" /\ pr.mps = "raise"

C6_DetectTotal ==
    (DetectRan /\ probe.torch = "ok") =>
        /\ backend # "none"
        /\ AllChecksRaise(probe) => backend = "cpu"

(***************************************************************************)
(* C7.  When the backend returns leaving more than one matching file in    *)
(* the scratch directory, the job fails with an ambiguous-artifact error   *)
(* and nothing is moved to the destination.                                *)
(***************************************************************************)
C7_AmbiguousArtifactFails ==
    (/\ backend = "mlx" /\ emitted > 1
     /\ pc \in {"mlx_recheck", "mlx_move", "mlx_finally", "mlx_rmtree", "done"}
     /\ error # "BackendFailure") =>
        /\ error \in {"AmbiguousArtifact", "ChdirFailed"}
        /\ ~moved

(***************************************************************************)
(* C8.  A run ends either with the output produced and exit status 0, or   *)
(* with no output and a non-zero exit status.                              *)
(***************************************************************************)
C8_ExitStatusMatchesOutput ==
    pc = "done" =>
        \/ exit = 0 /\ OutputProduced
        \/ exit # 0 /\ ~OutputProduced

(***************************************************************************)
(* C9.  With no symbolic links, an accepted output path whose parent       *)
(* directories are missing, and a backend that works, the job succeeds     *)
(* under every backend: the parents are created and the file is at the     *)
(* requested path.                                                         *)
(***************************************************************************)
\* failures of the host or of the backend, not of the handling of the path
HostErrors ==
    {"MissingRuntime", "ProbeError", "ImportFailed", "BackendFailure",
     "NoAudio", "EmptyText", "BadSpeed", "MissingModelFiles",
     "ArtifactNotFound", "ChdirFailed"}

MissingParents ==
    /\ SymlinkFree(fs0)
    /\ Strip(text) # ""
    /\ ~Exists(fs0, Parent(output))
    /\ tool = "tts" => validation = "ok"

C9_MissingParentsCreated ==
    (pc = "done" /\ MissingParents /\ error \notin HostErrors) =>
        /\ exit = 0
        /\ IsDir(fs, Parent(output))
        /\ OutputProduced

Absent == [kind |-> "absent", data |-> "", target |-> <<>>]

\* the entry path p names on filesystem f (links followed), Absent if none
EntryAt(f, p) ==
    LET r == Resolve(f, p, TRUE)
    IN IF r.ok /\ r.path \in DOMAIN f THEN f[r.path] ELSE Absent

\* the destination and each of its ancestors name the same entry as at start
DestinationAsBefore ==
    \A i \in 1..Len(output) :
        EntryAt(fs, SubSeq(output, 1, i)) = EntryAt(fs0, SubSeq(output, 1, i))

C11_FailureLeavesDestination ==
    error # "none" => DestinationAsBefore

(***************************************************************************)
(* C12.  When no check raises, detect_backend returns the first entry of   *)
(* the priority order that qualifies: mlx on Darwin arm64/aarch64 with the *)
(* MLX runtimes importable, else cuda if available, else mps if available, *)
(* else cpu.                                                               *)
(***************************************************************************)
NoCheckRaises(pr) ==
    /\ pr.mlx \in {"ok", "ImportError"}
    /\ pr.torch = "ok"
    /\ pr.cuda \in {"yes", "no"}
    /\ pr.mps \in {"yes", "no", "absent"}

MlxQualifies(pr) ==
    pr.system = "Darwin" /\ pr.machine \in {"arm64", "aarch64"} /\ pr.mlx = "ok"

FirstQualifying(pr) ==
    CASE MlxQualifies(pr) -> "mlx"
      [] ~MlxQualifies(pr) /\ pr.cuda = "yes" -> "cuda"
      [] ~MlxQualifies(pr) /\ pr.cuda # "yes" /\ pr.mps = "yes" -> "mps"
      [] OTHER -> "cpu"

C12_PriorityOrder ==
    (DetectRan /\ NoCheckRaises(probe)) => backend = FirstQualifying(probe)

\* CUDA and MPS both available, MLX not: cuda was returned
C12_Witness ==
    /\ DetectRan /\ NoCheckRaises(probe)
    /\ ~MlxQualifies(probe) /\ probe.cuda = "yes" /\ probe.mps = "yes"
    /\ backend = "cuda"

(***************************************************************************)
(* C13.  generate_with_mlx goes on to the move only when, at the test      *)
(* before it, the destination is not a symbolic link of any kind and still *)
(* passes validate_output_path; otherwise the job fails with the symlink   *)
(* rejection and nothing is moved.  Checked with another process changing  *)
(* the path between validation and that test.                              *)
(***************************************************************************)
\* the destination satisfies what validate_output_path was asked to ensure
StillValid(f) ==
    /\ ~IsLink(f, AbsPath(output))
    /\ validate_output_path(f, tempdir, output) = "ok"

C13_RecheckBeforeMove ==
    /\ pc = "mlx_move" => StillValid(fs)
    /\ (pc = "mlx_finally" /\ generated # "" /\ ~StillValid(fs)) =>
          error = "DestinationIsSymlink" /\ ~moved

(***************************************************************************)
(* C14.  When shutil.rmtree of the scratch directory fails, the job ends   *)
(* as its work ended: with exit status 0 when the artifact was moved to    *)
(* the destination, and otherwise with the error the work raised.          *)
(***************************************************************************)
\* the removal was attempted and the scratch directory is still there
ReleaseFailed ==
    pc = "done" /\ rmtreeCalls = 1 /\ scratch \in DOMAIN fs

\* the errors the steps inside the try block of generate_with_mlx raise
WorkErrors ==
    {"MakedirsFailed", "BackendFailure", "ArtifactNotFound",
     "DestinationIsSymlink", "MoveFailed"}

C14_ReleaseFailureKeepsOutcome ==
    ReleaseFailed =>
        /\ moved => error = "none" /\ exit = 0
        /\ ~moved => error \in WorkErrors /\ exit = 1

\* the work succeeded, the removal failed, and the job ended in success
C14_Witness ==
    ReleaseFailed /\ moved /\ exit = 0 /\ OutputProduced

(***************************************************************************)
(* C16.  Every output path validate_output_path accepts also passes the    *)
(* containment check of generate_with_mlx, so no job is rejected for its   *)
(* path under the MLX backend that the PyTorch backends would run.         *)
(***************************************************************************)
C16_SameAcceptance ==
    (tool = "tts" /\ validation = "ok") =>
        /\ MlxPathAllowed(fs0, tempdir, output)
        /\ error # "OutsideTempDir"

(***************************************************************************)
(* C17.  Once generate_with_mlx has created its scratch directory, the run *)
(* ends with the process back in the working directory it was started in, *)
(* whether the work returned or raised, and the scratch directory is       *)
(* removed only after the working directory has been restored.             *)
(***************************************************************************)
C17_CwdRestored ==
    /\ (pc = "done" /\ scratch # <<>>) => cwd = WorkDir
    /\ rmtreeCalls > 0 => cwd = WorkDir

(***************************************************************************)
(* C15.  With two MLX jobs interleaved on one host, the two never hold the *)
(* same scratch directory; while a job holds its scratch directory, the    *)
(* directory exists and holds exactly the files that job's backend wrote,  *)
(* the artifact the job relocates is one of them, and the other job's      *)
(* release removes none of it.                                             *)
(***************************************************************************)
\* the first job holds its scratch directory
JobLive ==
    /\ scratch # <<>>
    /\ pc \in {"mlx_enter", "mlx_generate", "mlx_glob", "mlx_recheck",
               "mlx_move", "mlx_finally", "mlx_rmtree"}

\* the second job holds its scratch directory
PeerLive == peer.pc \in {"generate", "glob", "rmtree"}

\* the entries of directory d
FilesIn(f, d) == {q \in DOMAIN f : q # <<>> /\ Parent(q) = d}

C15_ScratchIsolation ==
    /\ (JobLive /\ PeerLive) => scratch # peer.scratch
    /\ JobLive =>
          /\ scratch \in DOMAIN fs
          /\ \A q \in FilesIn(fs, scratch) : fs[q] = FileNode("audio")
          /\ pc \in {"mlx_glob", "mlx_recheck", "mlx_move"} =>
                Cardinality(FilesIn(fs, scratch)) = emitted
          /\ pc \in {"mlx_recheck", "mlx_move"} =>
                Append(scratch, generated) \in FilesIn(fs, scratch)
    /\ PeerLive =>
          /\ peer.scratch \in DOMAIN fs
          /\ \A q \in FilesIn(fs, peer.scratch) : fs[q] = FileNode(PeerAudio)
          /\ peer.pc = "glob" =>
                Cardinality(FilesIn(fs, peer.scratch)) = peer.emitted

\* both jobs hold a scratch directory with files of the same names in it,
\* and the first job has chosen its artifact
C15_Witness ==
    /\ JobLive /\ PeerLive
    /\ pc = "mlx_recheck" /\ peer.pc = "glob"
    /\ emitted > 0 /\ peer.emitted > 0
    /\ Append(peer.scratch, generated) \in DOMAIN fs

====
